---- MODULE Spec2Model ----
(***************************************************************************)
(* Model of vc-watcher-bot: TelegramMonitorBot (src/bot.py), the message   *)
(* aggregation and keyword-dispatch engine.                                *)
(*                                                                         *)
(* One handler invocation (process_message) runs per incoming update as a  *)
(* cooperative task.  A task runs atomically between two awaits; its       *)
(* suspension points are asyncio.sleep(0.5) in handle_media_group and the  *)
(* transport calls (send_message / send_photo / send_video /               *)
(* send_document / send_media_group).  Every action below is one such      *)
(* atomic stretch of code.                                                 *)
(*                                                                         *)
(* Strings are sequences of one-character strings, so that lower(),        *)
(* strip() and the substring test `in` are computed and not assumed.       *)
(* None and the empty string are both the empty sequence (both are falsy   *)
(* wherever the code tests them).                                          *)
(***************************************************************************)
EXTENDS Naturals, Sequences, FiniteSets

VARIABLES
    updates,        \* the Message objects received so far; index = message id
    tasks,          \* one process_message invocation per update, same index
    media_groups,   \* self.media_groups: group id -> reference into heap (0 = no key)
    heap,           \* the PendingGroup dict objects ever created, by reference
    calls,          \* the transport calls made so far, with their outcome
    manager         \* BotManager: where run / start_bot_with_recovery stands

vars == <<updates, tasks, media_groups, heap, calls, manager>>

----------------------------------------------------------------------------
(* Bounds of the model *)

\* Updates received in a run
MaxMsgs == 3

\* Transport calls that raise in a run
MaxFailures == 1

\* TelegramMonitorBot instances constructed in a run of BotManager
MaxBots == 4

----------------------------------------------------------------------------
(* Strings *)

None == <<>>

LowerChar(c) ==
    CASE c = "S" -> "s"
      [] c = "O" -> "o"
      [] c = "F" -> "f"
      [] c = "I" -> "i"
      [] c = "A" -> "a"
      [] c = "R" -> "r"
      [] c = "T" -> "t"
      [] c = "C" -> "c"
      [] c = "M" -> "m"
      [] c = "E" -> "e"
      [] OTHER   -> c

\* The letter U+0131, LATIN SMALL LETTER DOTLESS I: str.upper() maps it to
\* "I" and str.lower() leaves it alone
DotlessI == "U+0131"

UpperChar(c) ==
    CASE c = "s" -> "S"
      [] c = "o" -> "O"
      [] c = "f" -> "F"
      [] c = "i" -> "I"
      [] c = "a" -> "A"
      [] c = "r" -> "R"
      [] c = "t" -> "T"
      [] c = "c" -> "C"
      [] c = "m" -> "M"
      [] c = "e" -> "E"
      [] c = DotlessI -> "I"
      [] OTHER   -> c

\* str.upper()
Upper(s) == [k \in 1..Len(s) |-> UpperChar(s[k])]

LowerKeepsCase(s) == s

\* str.lower()
Lower(s) == [k \in 1..Len(s) |-> LowerChar(s[k])]

IsSpace(c) == c = " "

RECURSIVE LStrip(_)
LStrip(s) == IF s # <<>> /\ IsSpace(Head(s)) THEN LStrip(Tail(s)) ELSE s

RECURSIVE RStrip(_)
RStrip(s) ==
    IF s # <<>> /\ IsSpace(s[Len(s)]) THEN RStrip(SubSeq(s, 1, Len(s) - 1)) ELSE s

\* str.strip()
Strip(s) == RStrip(LStrip(s))

\* Python's `sub in s` for strings
Contains(sub, s) ==
    \E k \in 0..Len(s) : k + Len(sub) <= Len(s) /\ SubSeq(s, k + 1, k + Len(sub)) = sub

\* Python's `a or b`
Or(a, b) == IF a # <<>> THEN a ELSE b

----------------------------------------------------------------------------
(* Configuration: config.WATCHLIST, a dict keyword -> user_id.  Its items() *)
(* are iterated in insertion order, so it is a sequence of entries here.    *)

Sofi    == <<"s", "o", "f", "i">>
SofiArt == <<"s", "o", "f", "i", " ", "a", "r", "t">>
Art     == <<"a", "r", "t">>
Acme    == <<"a", "c", "m", "e">>

WATCHLIST ==
    << [keyword |-> Sofi, user_id |-> "U1"],
       [keyword |-> Art,  user_id |-> "U2"],
       [keyword |-> Acme, user_id |-> "U1"] >>

----------------------------------------------------------------------------
(* Incoming updates *)

GroupIds == {"G1"}

\* media_group_id of a message that is not part of an album
NoGroup == "-"

\* The keys self.media_groups can hold
Keys == GroupIds \cup {NoGroup}

\* What a Message carries: photo, video, document, or none of the three
\* (a text message, or a media type the bot does not look at, e.g. audio).
MediaKinds == {"photo", "video", "document"}
Kinds      == MediaKinds \cup {"other"}

TextSofiArt  == <<"S", "O", "F", "I", " ", "a", "r", "t">>
TextAcmeSofi == <<" ", "A", "c", "m", "e", " ", "S", "o", "f", "i">>
TextBlank    == <<" ">>

Texts == {None, TextBlank, TextSofiArt, TextAcmeSofi}

\* A Message: media_group_id (None when not part of an album), the media it
\* carries, caption (media messages) and text (text messages).
InputMessages ==
    { [media_group_id |-> g, kind |-> k, caption |-> c, text |-> x] :
        g \in GroupIds \cup {NoGroup}, k \in Kinds, c \in Texts, x \in Texts }

\* A Telegram message has a text or a caption, never both; only a message
\* without photo, video and document can be a text message, and an album
\* member is never a text message.
WellFormed(m) ==
    /\ m.caption = None \/ m.text = None
    /\ m.text # None => m.kind = "other" /\ m.media_group_id = NoGroup

\* The code reads the media type and the text of a message independently of
\* each other, so the texts are varied on album photos and on text messages,
\* and the media types on one caption.
Sampled(m) ==
    \/ m.media_group_id # NoGroup /\ m.kind = "photo"
    \/ m.caption = None /\ m.kind = "other"
    \/ m.caption = TextAcmeSofi

Messages == { m \in InputMessages : WellFormed(m) /\ Sampled(m) }

----------------------------------------------------------------------------
(* Matching: the keyword scan of process_message and process_media_group *)

FoundAgenciesNoExclusion(lower_text) ==
    SelectSeq(WATCHLIST, LAMBDA e : Contains(e.keyword, lower_text))

\* process_message, the loop over WATCHLIST.items()
FoundAgencies(lower_text) ==
    SelectSeq(WATCHLIST,
              LAMBDA e : /\ Contains(e.keyword, lower_text)
                         /\ ~(e.keyword = Sofi /\ Contains(SofiArt, lower_text)))

GroupFoundAgenciesFirstOnly(lower_text) ==
    LET all == SelectSeq(WATCHLIST,
                   LAMBDA e : /\ Contains(e.keyword, lower_text)
                              /\ ~(e.keyword = Sofi /\ Contains(SofiArt, lower_text)))
    IN  SubSeq(all, 1, 1)

\* process_media_group, the same loop over WATCHLIST.items()
GroupFoundAgencies(lower_text) ==
    SelectSeq(WATCHLIST,
              LAMBDA e : /\ Contains(e.keyword, lower_text)
                         /\ ~(e.keyword = Sofi /\ Contains(SofiArt, lower_text)))

----------------------------------------------------------------------------
(* Notifications *)

\* The fixed header line of a notification, with its newline
Header == <<"!", "\n">>

Quote == <<"\"">>

\* content = header + '"' + full_text.strip() + '"'
Content(full_text) == Header \o Quote \o Strip(full_text) \o Quote

\* A transport call of task t for its pair number i.  media is the list of
\* media items handed over (one item for send_photo / send_video /
\* send_document), text the text of send_message.
Call(t, i, pair, method, media, text) ==
    [task |-> t, i |-> i, keyword |-> pair.keyword, chat_id |-> pair.user_id,
     method |-> method, media |-> media, text |-> text, result |-> "pending"]

\* send_notification: the call chosen by the type of the message
SendNotification(t, i, message, pair, full_text) ==
    LET content == Content(full_text)
        item    == <<[type |-> message.kind, media |-> t, caption |-> content]>>
    IN  CASE message.kind = "photo"    -> Call(t, i, pair, "send_photo", item, None)
          [] message.kind = "video"    -> Call(t, i, pair, "send_video", item, None)
          [] message.kind = "document" -> Call(t, i, pair, "send_document", item, None)
          [] OTHER                     -> Call(t, i, pair, "send_message", <<>>, content)

\* send_media_group_notification: media_list built from enumerate(messages)
MediaList(messages, content) ==
    LET idx == SelectSeq([k \in 1..Len(messages) |-> k],
                         LAMBDA k : updates[messages[k]].kind \in MediaKinds)
    IN  [j \in 1..Len(idx) |->
            [type    |-> updates[messages[idx[j]]].kind,
             media   |-> messages[idx[j]],
             caption |-> IF idx[j] = 1 THEN content ELSE None]]

SendMediaGroupNotification(t, i, pair, messages, full_text) ==
    LET content    == Content(full_text)
        media_list == MediaList(messages, content)
    IN  IF media_list # <<>>
        THEN Call(t, i, pair, "send_media_group", media_list, None)
        ELSE Call(t, i, pair, "send_message", <<>>, content)

----------------------------------------------------------------------------
(* Exceptions *)

SendNotificationPropagates(ok) == ok

\* send_notification wraps its body in try/except Exception: whether the
\* transport call returned (ok) or raised, send_notification returns to the
\* loop over found_agencies.
SendNotificationReturns(ok) == TRUE

\* send_media_group_notification, the same try/except Exception
SendMediaGroupNotificationReturns(ok) == TRUE

\* process_message wraps its body in try/except Exception: an exception that
\* reaches it is logged and the handler returns.
ProcessMessageExcept == "caught"

----------------------------------------------------------------------------
(* State *)

\* A handler that has not reached an await yet
NewTask ==
    [pc |-> "done", outcome |-> "returned", joined |-> 0, late |-> FALSE,
     group_data |-> 0, snap |-> 0, full_text |-> None, matched |-> FALSE,
     found |-> <<>>, i |-> 0]

\* BotManager.__init__: one TelegramMonitorBot, no web thread yet
BotManagerNew ==
    [pc |-> "constructed", bots |-> 1, web_starts |-> 0, last |-> "none",
     stopped |-> {}, stop_raised |-> FALSE, attempt |-> 0, retry_delay |-> 0,
     waits |-> <<>>]

\* TelegramMonitorBot.__init__ (self.media_groups = {}), with the dispatcher
\* polling
Init ==
    /\ updates = <<>>
    /\ tasks = <<>>
    /\ media_groups = [g \in Keys |-> 0]
    /\ heap = <<>>
    /\ calls = {}
    /\ manager = [BotManagerNew EXCEPT !.pc = "polling"]

Grouped(t) == updates[t].media_group_id # NoGroup

\* The tasks of group g that are past their quiescence wait
Woken(g) ==
    { u \in 1..Len(tasks) : updates[u].media_group_id = g /\ tasks[u].pc # "sleep" }

----------------------------------------------------------------------------
(* process_message for a message that is not part of an album, up to its    *)
(* first await (the first transport call) or its return                     *)

IsMediaGroupAlways(message) == TRUE

\* if message.media_group_id:
IsMediaGroup(message) == message.media_group_id # NoGroup

ReceivePlain(message) ==
    LET t         == Len(updates) + 1
        full_text == Strip(Or(message.caption, Or(message.text, None)))
        found     == FoundAgencies(Lower(full_text))
    IN  /\ Len(updates) < MaxMsgs
        /\ ~IsMediaGroup(message)
        /\ updates' = Append(updates, message)
        /\ IF full_text = None
           THEN /\ tasks' = Append(tasks, NewTask)
                /\ calls' = calls
           ELSE IF found = <<>>
           THEN /\ tasks' = Append(tasks, [NewTask EXCEPT !.full_text = full_text,
                                                          !.matched = TRUE])
                /\ calls' = calls
           ELSE /\ tasks' = Append(tasks, [NewTask EXCEPT !.pc = "send",
                                                          !.outcome = "running",
                                                          !.full_text = full_text,
                                                          !.matched = TRUE,
                                                          !.found = found,
                                                          !.i = 1])
                /\ calls' = calls \cup
                       {SendNotification(t, 1, message, found[1], full_text)}
        /\ UNCHANGED <<media_groups, heap, manager>>

----------------------------------------------------------------------------
(* process_message -> handle_media_group, up to asyncio.sleep(0.5)          *)

CaptureCaptionOverwrites(caption, message) ==
    IF message.caption # None THEN message.caption ELSE caption

\* The caption kept for the group when message arrives
CaptureCaption(caption, message) ==
    IF message.caption # None /\ caption = None THEN message.caption ELSE caption

AppendMessageInFront(messages, t) == <<t>> \o messages

\* self.media_groups[media_group_id]['messages'].append(message)
AppendMessage(messages, t) == Append(messages, t)

ReceiveGrouped(message) ==
    LET t     == Len(updates) + 1
        g     == message.media_group_id
        fresh == media_groups[g] = 0
        ref   == IF fresh THEN Len(heap) + 1 ELSE media_groups[g]
        old   == IF fresh
                 THEN [messages |-> <<>>, caption |-> None, processed |-> FALSE]
                 ELSE heap[ref]
        new   == [old EXCEPT !.messages = AppendMessage(old.messages, t),
                             !.caption = CaptureCaption(old.caption, message)]
    IN  /\ Len(updates) < MaxMsgs
        /\ IsMediaGroup(message)
        /\ updates' = Append(updates, message)
        /\ heap' = IF fresh THEN Append(heap, new) ELSE [heap EXCEPT ![ref] = new]
        /\ media_groups' = [media_groups EXCEPT ![g] = ref]
        /\ tasks' = Append(tasks, [NewTask EXCEPT !.pc = "sleep",
                                                  !.outcome = "running",
                                                  !.joined = ref,
                                                  !.late = Woken(g) # {}])
        /\ UNCHANGED <<calls, manager>>

----------------------------------------------------------------------------
(* handle_media_group after the sleep, and process_media_group up to its    *)
(* first await (the first transport call) or its return                     *)

MarkProcessedForgets(group) == group

\* self.media_groups[media_group_id]['processed'] = True
MarkProcessed(group) == [group EXCEPT !.processed = TRUE]

DiscardGroupKeeps(table, g) == table

\* The group table after process_media_group found an empty caption
DiscardGroup(table, g) == [table EXCEPT ![g] = 0]

DeleteGroupKeeps(table, g) == table

\* The group table after the loop over found_agencies
DeleteGroup(table, g) == [table EXCEPT ![g] = 0]

Wake(t) ==
    LET g         == updates[t].media_group_id
        ref       == media_groups[g]
        full_text == Or(heap[ref].caption, None)
        found     == GroupFoundAgencies(Lower(full_text))
        flushing  == [tasks[t] EXCEPT !.group_data = ref,
                                      !.snap = Len(heap[ref].messages),
                                      !.full_text = full_text]
    IN  /\ t \in 1..Len(tasks)
        /\ tasks[t].pc = "sleep"
        /\ UNCHANGED <<updates, manager>>
        /\ IF ref = 0
           THEN \* self.media_groups[media_group_id] raises KeyError
                /\ tasks' = [tasks EXCEPT ![t].pc = "done",
                                          ![t].outcome = ProcessMessageExcept]
                /\ UNCHANGED <<media_groups, heap, calls>>
           ELSE IF heap[ref].processed
           THEN /\ tasks' = [tasks EXCEPT ![t].pc = "done", ![t].outcome = "returned"]
                /\ UNCHANGED <<media_groups, heap, calls>>
           ELSE /\ heap' = [heap EXCEPT ![ref] = MarkProcessed(heap[ref])]
                /\ IF g = NoGroup
                   THEN \* if media_group_id: is false, process_media_group is not run
                        /\ tasks' = [tasks EXCEPT ![t].pc = "done",
                                                  ![t].outcome = "returned"]
                        /\ UNCHANGED <<media_groups, calls>>
                   ELSE IF Strip(full_text) = None
                   THEN /\ media_groups' = DiscardGroup(media_groups, g)
                        /\ tasks' = [tasks EXCEPT ![t] =
                               [flushing EXCEPT !.pc = "done", !.outcome = "returned"]]
                        /\ calls' = calls
                   ELSE IF found = <<>>
                   THEN /\ media_groups' = DeleteGroup(media_groups, g)
                        /\ tasks' = [tasks EXCEPT ![t] =
                               [flushing EXCEPT !.pc = "done", !.outcome = "returned",
                                                !.matched = TRUE]]
                        /\ calls' = calls
                   ELSE /\ media_groups' = media_groups
                        /\ tasks' = [tasks EXCEPT ![t] =
                               [flushing EXCEPT !.pc = "send", !.matched = TRUE,
                                                !.found = found, !.i = 1]]
                        /\ calls' = calls \cup
                               {SendMediaGroupNotification(
                                    t, 1, found[1], heap[ref].messages, full_text)}

----------------------------------------------------------------------------
(* A transport call returns or raises; the task runs on to its next await   *)
(* (the call for the next pair) or to its return                            *)

SendReturn(t, ok) ==
    LET task     == tasks[t]
        call     == CHOOSE c \in calls : c.task = t /\ c.result = "pending"
        answered == (calls \ {call}) \cup
                        {[call EXCEPT !.result = IF ok THEN "ok" ELSE "failed"]}
        returns  == IF Grouped(t) THEN SendMediaGroupNotificationReturns(ok)
                                  ELSE SendNotificationReturns(ok)
        g        == updates[t].media_group_id
        i        == task.i + 1
    IN  /\ t \in 1..Len(tasks)
        /\ task.pc = "send"
        /\ ~ok => Cardinality({c \in calls : c.result = "failed"}) < MaxFailures
        /\ UNCHANGED <<updates, heap, manager>>
        /\ IF ~returns
           THEN /\ tasks' = [tasks EXCEPT ![t].pc = "done",
                                          ![t].outcome = ProcessMessageExcept]
                /\ calls' = answered
                /\ UNCHANGED media_groups
           ELSE IF i <= Len(task.found)
           THEN /\ tasks' = [tasks EXCEPT ![t].i = i]
                /\ calls' = answered \cup
                       { IF Grouped(t)
                         THEN SendMediaGroupNotification(
                                  t, i, task.found[i], heap[task.group_data].messages,
                                  task.full_text)
                         ELSE SendNotification(
                                  t, i, updates[t], task.found[i], task.full_text) }
                /\ UNCHANGED media_groups
           ELSE /\ calls' = answered
                /\ IF ~Grouped(t)
                   THEN /\ tasks' = [tasks EXCEPT ![t].pc = "done",
                                                  ![t].outcome = "returned"]
                        /\ UNCHANGED media_groups
                   ELSE IF media_groups[g] = 0
                   THEN \* del self.media_groups[media_group_id] raises KeyError
                        /\ tasks' = [tasks EXCEPT ![t].pc = "done",
                                                  ![t].outcome = ProcessMessageExcept]
                        /\ UNCHANGED media_groups
                   ELSE /\ tasks' = [tasks EXCEPT ![t].pc = "done",
                                                  ![t].outcome = "returned"]
                        /\ media_groups' = DeleteGroup(media_groups, g)

----------------------------------------------------------------------------

Next ==
    \/ \E message \in Messages : ReceivePlain(message)
    \/ \E message \in Messages : ReceiveGrouped(message)
    \/ \E t \in 1..MaxMsgs : Wake(t)
    \/ \E t \in 1..MaxMsgs, ok \in BOOLEAN : SendReturn(t, ok)

Spec == Init /\ [][Next]_vars

\* There is no cancellation: asyncio.sleep(0.5) always elapses and the event
\* loop resumes the waiter, and every transport call returns or raises.
Fairness ==
    \A t \in 1..MaxMsgs :
        /\ WF_vars(Wake(t))
        /\ WF_vars(\E ok \in BOOLEAN : SendReturn(t, ok))

\* The updates of the runs checked for liveness: album photos with every
\* caption, and one non-grouped photo and one text message that match
LiveMessages == { m \in Messages : m.kind = "photo" \/ m.text = TextAcmeSofi }

LiveNext ==
    \/ \E message \in LiveMessages : ReceivePlain(message)
    \/ \E message \in LiveMessages : ReceiveGrouped(message)
    \/ \E t \in 1..MaxMsgs : Wake(t)
    \/ \E t \in 1..MaxMsgs, ok \in BOOLEAN : SendReturn(t, ok)

FairSpec == Init /\ [][LiveNext]_vars /\ Fairness

\* The updates of the runs checked for the letter case of the text: text
\* messages and album photos whose text is mixed-case, upper-case, or has a
\* letter outside ASCII
TextDotless == <<"s", "o", "f", DotlessI>>

CaseTexts == {TextSofiArt, Upper(TextSofiArt), TextAcmeSofi, TextDotless}

CaseMessages ==
    { [media_group_id |-> NoGroup, kind |-> "other", caption |-> None, text |-> x] :
        x \in CaseTexts }
    \cup
    { [media_group_id |-> g, kind |-> "photo", caption |-> x, text |-> None] :
        g \in GroupIds, x \in CaseTexts }

CaseNext ==
    \/ \E message \in CaseMessages : ReceivePlain(message)
    \/ \E message \in CaseMessages : ReceiveGrouped(message)
    \/ \E t \in 1..MaxMsgs : Wake(t)
    \/ \E t \in 1..MaxMsgs, ok \in BOOLEAN : SendReturn(t, ok)

CaseSpec == Init /\ [][CaseNext]_vars

----------------------------------------------------------------------------
(* Vocabulary of the properties *)

Tasks == 1..Len(tasks)

\* The handler invocations for the messages of group g
TasksOf(g) == { t \in Tasks : updates[t].media_group_id = g }

\* The tasks of group g that passed the processed check and set the flag,
\* that is, that ran process_media_group
Flushers(g) == { t \in TasksOf(g) : tasks[t].group_data # 0 }

CallsOf(t) == { c \in calls : c.task = t }

\* Every message of g was handled before the first wait of g elapsed
WithinWindow(g) == \A t \in TasksOf(g) : ~tasks[t].late

\* The messages of the group at the moment task t set processed
UnitMessages(t) == SubSeq(heap[tasks[t].group_data].messages, 1, tasks[t].snap)

\* Their attachments, in order: the file each photo, video or document
\* message carries (a file is named by the id of its message)
UnitAttachments(t) ==
    SelectSeq(UnitMessages(t), LAMBDA m : updates[m].kind \in MediaKinds)

\* The files of a transport call, in order
Files(c) == [j \in 1..Len(c.media) |-> c.media[j].media]

\* The caption of the first message of msgs that carries one
RECURSIVE FirstCaption(_)
FirstCaption(msgs) ==
    IF msgs = <<>> THEN None
    ELSE IF updates[Head(msgs)].caption # None THEN updates[Head(msgs)].caption
    ELSE FirstCaption(Tail(msgs))

----------------------------------------------------------------------------
(* C1. Idempotent emission: when all the messages of a group are handled    *)
(* before the first of their quiescence waits elapses, at most one waiter   *)
(* passes the processed check, exactly one once a waiter has woken, and     *)
(* only that waiter makes transport calls, one per matched pair: the group  *)
(* is flushed and dispatched exactly once, whatever the interleaving.       *)
C1_IdempotentEmission ==
    \A g \in GroupIds :
        (TasksOf(g) # {} /\ WithinWindow(g)) =>
            /\ Cardinality(Flushers(g)) <= 1
            /\ Woken(g) # {} => Cardinality(Flushers(g)) = 1
            /\ \A t \in TasksOf(g) : CallsOf(t) # {} => t \in Flushers(g)
            /\ \A t \in Flushers(g) :
                   \A c, d \in CallsOf(t) : c.i = d.i => c = d

\* Three messages of one group inside the window, all waiters done: one
\* flushed and sent, one woke during the suspended send and returned, one
\* woke after the group was deleted.
C1_Witness ==
    \E g \in GroupIds :
        /\ WithinWindow(g)
        /\ Cardinality(TasksOf(g)) = 3
        /\ \A t \in TasksOf(g) : tasks[t].pc = "done"
        /\ \E t \in Flushers(g) : \E c \in CallsOf(t) : c.result = "ok"
        /\ \E t \in TasksOf(g) : tasks[t].group_data = 0 /\ tasks[t].outcome = "returned"
        /\ \E t \in TasksOf(g) : tasks[t].outcome = "caught"

(* C2. Flushed is terminal for a group_id: no group_id is flushed by more   *)
(* than one waiter, whenever its messages arrive.                           *)
C2_FlushedIsTerminal ==
    \A g \in GroupIds : Cardinality(Flushers(g)) <= 1

(* C3. Every notification of a group flush carries exactly the attachments  *)
(* of the messages accumulated when processed was set, in every pair of     *)
(* the dispatch pass.                                                       *)
C3_UnitFixedAtFlush ==
    \A c \in calls :
        Grouped(c.task) => Files(c) = UnitAttachments(c.task)

(* C4. Caption-first-wins: the caption of every PendingGroup is the caption *)
(* of the earliest-arrived message of the group that carries one, and is    *)
(* unset when no message carries one; so a caption once set is not          *)
(* overwritten by a later message.                                          *)
C4_CaptionFirstWins ==
    \A r \in 1..Len(heap) : heap[r].caption = FirstCaption(heap[r].messages)

\* A group in the table whose first message has no caption and whose second
\* and third carry different captions; the group has the second's.
C4_Witness ==
    \E g \in GroupIds :
        /\ media_groups[g] # 0
        /\ LET group == heap[media_groups[g]]
           IN  /\ Len(group.messages) = 3
               /\ updates[group.messages[1]].caption = None
               /\ updates[group.messages[2]].caption # None
               /\ updates[group.messages[3]].caption # None
               /\ updates[group.messages[3]].caption # updates[group.messages[2]].caption
               /\ group.caption = updates[group.messages[2]].caption

(* C5. Empty caption means no dispatch: a flush that finds the caption of   *)
(* its group unset or blank makes no transport call, raises nothing, and    *)
(* has removed the group from the table when it returns.                    *)
C5_EmptyCaptionNoDispatch ==
    \A t \in Tasks :
        (tasks[t].group_data # 0 /\ Strip(tasks[t].full_text) = None) =>
            /\ tasks[t].pc = "done"
            /\ tasks[t].outcome = "returned"
            /\ CallsOf(t) = {}
            /\ media_groups[updates[t].media_group_id] # tasks[t].group_data

\* A flush of a two-message group whose caption is blank but not unset, and
\* one of a group without any caption
C5_Witness ==
    /\ \E t \in Tasks :
           /\ tasks[t].group_data # 0
           /\ tasks[t].full_text = TextBlank
           /\ tasks[t].snap = 2
    /\ \E t \in Tasks :
           /\ tasks[t].group_data # 0
           /\ tasks[t].full_text = None

SingleMediaMethods == {"send_photo", "send_video", "send_document"}

\* The notification text of the calls of task t
ContentOf(t) == Content(tasks[t].full_text)

\* The items of a call that carry the notification text as their caption
Captioned(c) == { j \in 1..Len(c.media) : c.media[j].caption = ContentOf(c.task) }

(* C6. Album shaping: every album of more than one item sent for a flushed  *)
(* group carries the notification text as the caption of its first item    *)
(* and of no other item, whatever the messages of the group are.            *)
C6_AlbumCaptionOnFirstItem ==
    \A c \in calls :
        (c.method = "send_media_group" /\ Len(c.media) > 1) =>
            /\ Captioned(c) = {1}
            /\ \A j \in 2..Len(c.media) : c.media[j].caption = None

(* C7. Single-attachment shaping: every transport call that hands over     *)
(* exactly one attachment, for a non-grouped message or for a flushed group, *)
(* is a single-media send of that attachment's kind with the notification  *)
(* text as its caption, never an album send.                                *)
C7_SingleAttachmentSingleSend ==
    \A c \in calls :
        Len(c.media) = 1 =>
            /\ c.method \in SingleMediaMethods
            /\ c.method # "send_media_group"
            /\ c.media[1].caption = ContentOf(c.task)

(* C8. Dispatch isolation: in both paths the matched pairs of a unit are    *)
(* attempted one after the other, each exactly once, whether or not an      *)
(* earlier transport call of the unit raised; a handler that has returned   *)
(* has attempted every pair, and no exception leaves process_message: a     *)
(* handler that dispatched returns normally.                                *)
C8_DispatchIsolation ==
    \A t \in Tasks :
        /\ tasks[t].outcome # "raised"
        /\ { c.i : c \in CallsOf(t) } = 1..tasks[t].i
        /\ Cardinality(CallsOf(t)) = tasks[t].i
        /\ \A c \in CallsOf(t) :
               /\ c.keyword = tasks[t].found[c.i].keyword
               /\ c.chat_id = tasks[t].found[c.i].user_id
        /\ tasks[t].pc = "done" =>
               /\ tasks[t].i = Len(tasks[t].found)
               /\ \A c \in CallsOf(t) : c.result # "pending"
               /\ CallsOf(t) # {} => tasks[t].outcome = "returned"

\* The first call of a non-grouped unit with two pairs raised, the second
\* was still made and the handler returned; a later update is being handled.
C8_Witness ==
    \E t \in Tasks :
        /\ ~Grouped(t)
        /\ tasks[t].pc = "done"
        /\ tasks[t].outcome = "returned"
        /\ \E c, d \in CallsOf(t) :
               c.i = 1 /\ c.result = "failed" /\ d.i = 2 /\ d.result = "ok"
        /\ \E u \in Tasks : u > t /\ tasks[u].pc # "done"

(* C9. Every PendingGroup that is created is eventually deleted from the   *)
(* group table: a group object that is in the table is eventually no       *)
(* longer in it.                                                            *)
C9_EveryGroupDeleted ==
    \A g \in GroupIds : \A r \in 1..MaxMsgs :
        (media_groups[g] = r) ~> (media_groups[g] # r)

\* A group of one message without caption was flushed and is gone from the
\* table, and so is a group one of whose notifications failed.
C9_Witness ==
    /\ \E r \in 1..Len(heap) :
           /\ heap[r].caption = None
           /\ Len(heap[r].messages) = 1
           /\ heap[r].processed
           /\ \A g \in GroupIds : media_groups[g] # r
    /\ \E t \in Tasks :
           /\ tasks[t].group_data # 0
           /\ tasks[t].pc = "done"
           /\ \E c \in CallsOf(t) : c.result = "failed"
           /\ \A g \in GroupIds : media_groups[g] # tasks[t].group_data

\* The keywords of the match result of task t
FoundKeywords(t) == { tasks[t].found[j].keyword : j \in 1..Len(tasks[t].found) }

WatchKeywords == { WATCHLIST[j].keyword : j \in 1..Len(WATCHLIST) }

(* C10. Exclusion law: in both paths, for the text a handler matched,       *)
(* "sofi" is not in the result when the lower-cased text contains           *)
(* "sofi art" and is in it when the text contains "sofi" without            *)
(* "sofi art"; every other keyword of the watchlist that occurs in the      *)
(* text is in the result.                                                   *)
C10_ExclusionLaw ==
    \A t \in Tasks :
        tasks[t].matched =>
            LET lower_text == Lower(tasks[t].full_text)
            IN  /\ Contains(SofiArt, lower_text) => Sofi \notin FoundKeywords(t)
                /\ (Contains(Sofi, lower_text) /\ ~Contains(SofiArt, lower_text))
                       => Sofi \in FoundKeywords(t)
                /\ \A k \in WatchKeywords \ {Sofi} :
                       Contains(k, lower_text) <=> k \in FoundKeywords(t)

\* A non-grouped message and a group whose texts contain "sofi art" in
\* another letter case were matched to "art" alone, and a unit whose text
\* contains "sofi" without "sofi art" was matched to "sofi".
C10_Witness ==
    /\ \E t \in Tasks :
           /\ ~Grouped(t)
           /\ tasks[t].full_text = TextSofiArt
           /\ FoundKeywords(t) = {Art}
    /\ \E t \in Tasks :
           /\ Grouped(t)
           /\ tasks[t].full_text = TextSofiArt
           /\ FoundKeywords(t) = {Art}
    /\ \E t \in Tasks :
           /\ tasks[t].full_text # TextSofiArt
           /\ Sofi \in FoundKeywords(t)

(* C11. Attachment order: the items of every album sent for a flushed       *)
(* group are attachments of messages of that group and appear in the order  *)
(* in which those messages were handled (a message's id is its position in  *)
(* the order of handling), whatever the interleaving of the handlers.       *)
C11_AttachmentOrder ==
    \A c \in calls :
        c.method = "send_media_group" =>
            /\ \A j, k \in 1..Len(c.media) : j < k => c.media[j].media < c.media[k].media
            /\ \A j \in 1..Len(c.media) :
                   /\ tasks[c.media[j].media].joined = tasks[c.task].group_data
                   /\ c.media[j].type = updates[c.media[j].media].kind

\* An album of three items was sent by a waiter that is not the one of the
\* first message of the group
C11_Witness ==
    \E c \in calls :
        /\ c.method = "send_media_group"
        /\ Len(c.media) = 3
        /\ c.task # c.media[1].media

\* The positions in WATCHLIST of the keywords that apply to the lower-cased
\* text: those that occur in it, "sofi" only without "sofi art"
Applies(j, lower_text) ==
    /\ Contains(WATCHLIST[j].keyword, lower_text)
    /\ WATCHLIST[j].keyword = Sofi => ~Contains(SofiArt, lower_text)

(* C12. Fan-out: a unit whose handler has returned got, for each keyword of *)
(* the watchlist that matches its text, exactly one transport call, to the  *)
(* recipient of that keyword, and no call for any other keyword; the calls  *)
(* of a unit are made in watchlist iteration order; two matching keywords   *)
(* with the same recipient give two calls to that recipient.                *)
C12_FanOut ==
    \A t \in Tasks :
        LET lower_text == Lower(tasks[t].full_text)
        IN  /\ \A c \in CallsOf(t) :
                   \E j \in 1..Len(WATCHLIST) :
                       /\ Applies(j, lower_text)
                       /\ c.keyword = WATCHLIST[j].keyword
                       /\ c.chat_id = WATCHLIST[j].user_id
            /\ \A c, d \in CallsOf(t) :
                   \A j, k \in 1..Len(WATCHLIST) :
                       (c.keyword = WATCHLIST[j].keyword /\ d.keyword = WATCHLIST[k].keyword)
                           => (c.i < d.i <=> j < k)
            /\ (tasks[t].pc = "done" /\ tasks[t].matched) =>
                   \A j \in 1..Len(WATCHLIST) :
                       Applies(j, lower_text) =>
                           Cardinality({ c \in CallsOf(t) :
                                           c.keyword = WATCHLIST[j].keyword }) = 1

\* A flushed group and a non-grouped message, each matched by "sofi" and by
\* "acme", which have the same recipient: two calls each to that recipient
C12_Witness ==
    /\ \E t \in Tasks :
           /\ Grouped(t)
           /\ tasks[t].pc = "done"
           /\ \E c, d \in CallsOf(t) :
                  /\ c.i = 1 /\ c.keyword = Sofi
                  /\ d.i = 2 /\ d.keyword = Acme
                  /\ c.chat_id = d.chat_id
    /\ \E t \in Tasks :
           /\ ~Grouped(t)
           /\ tasks[t].pc = "done"
           /\ Cardinality(CallsOf(t)) = 2
           /\ \A c \in CallsOf(t) : c.chat_id = "U1"

\* The step is the handling of an update that is not part of an album
PlainArrives ==
    /\ Len(updates') = Len(updates) + 1
    /\ updates'[Len(updates')].media_group_id = NoGroup

\* The text process_message reads from a non-grouped message
PlainText(message) == Or(message.caption, Or(message.text, None))

(* C13. Non-grouped pass-through: no step of the handler of a non-grouped   *)
(* message changes the group table or a PendingGroup, and such a handler    *)
(* is never in a quiescence wait; when it has a match its first transport   *)
(* call is made in the step that receives the message, and all its calls    *)
(* carry its own message; a message whose text and caption are empty or     *)
(* whitespace makes no call, is not matched and returns normally.           *)
C13_PlainPassThrough ==
    [][ /\ PlainArrives =>
            LET t == Len(updates')
            IN  /\ media_groups' = media_groups
                /\ heap' = heap
                /\ tasks'[t].joined = 0
                /\ tasks'[t].found # <<>> => \E c \in calls' : c.task = t /\ c.i = 1
                /\ Strip(PlainText(updates'[t])) = None =>
                       /\ calls' = calls
                       /\ ~tasks'[t].matched
                       /\ tasks'[t].pc = "done"
                       /\ tasks'[t].outcome = "returned"
        /\ \A t \in Tasks :
               ~Grouped(t) =>
                   /\ tasks'[t].pc # "sleep"
                   /\ tasks'[t] # tasks[t] => media_groups' = media_groups /\ heap' = heap
        /\ \A c \in calls' :
               updates'[c.task].media_group_id = NoGroup =>
                   \A j \in 1..Len(c.media) : c.media[j].media = c.task
      ]_vars

\* While a group is pending in the table, a whitespace-only text message
\* was handled without a call and a matching photo was dispatched.
C13_Witness ==
    /\ \E g \in GroupIds :
           media_groups[g] # 0 /\ ~heap[media_groups[g]].processed
    /\ \E t \in Tasks :
           /\ updates[t].media_group_id = NoGroup
           /\ updates[t].text = TextBlank
           /\ tasks[t].pc = "done"
           /\ CallsOf(t) = {}
    /\ \E t \in Tasks :
           /\ updates[t].media_group_id = NoGroup
           /\ updates[t].kind = "photo"
           /\ \E c \in CallsOf(t) : c.result = "ok"

\* The original text of the unit of task t: the text or caption of a
\* non-grouped message, the caption of the flushed group
OriginalText(t) ==
    IF Grouped(t) THEN heap[tasks[t].group_data].caption ELSE PlainText(updates[t])

\* Whether the unit of task t has no attachment
NoAttachment(t) ==
    IF Grouped(t) THEN UnitAttachments(t) = <<>> ELSE updates[t].kind \notin MediaKinds

(* C14. Notification text: every text a transport call carries, as message *)
(* text or as a caption, is the header followed by the quoted, trimmed      *)
(* original text in its original letter case; a text-only send carries it,  *)
(* and the call for a unit without attachment is a text-only send.          *)
C14_NotificationText ==
    \A c \in calls :
        LET expected == Header \o Quote \o Strip(OriginalText(c.task)) \o Quote
        IN  /\ c.method = "send_message" => c.text = expected
            /\ \A j \in 1..Len(c.media) : c.media[j].caption \in {None, expected}
            /\ NoAttachment(c.task) => c.method = "send_message"

\* The match result, as a set of pairs, of the handler path of task t for
\* the text T: process_message strips and lower-cases, process_media_group
\* lower-cases
MatchOf(t, T) ==
    LET found == IF Grouped(t) THEN GroupFoundAgencies(Lower(T))
                               ELSE FoundAgencies(Lower(Strip(T)))
    IN  { found[j] : j \in 1..Len(found) }

FoundPairs(t) == { tasks[t].found[j] : j \in 1..Len(tasks[t].found) }

AsciiText(T) == \A k \in 1..Len(T) : T[k] # DotlessI

(* C15 as stated. Matching is deterministic and case-insensitive: the set   *)
(* of pairs matched for the text T of a unit equals the set for T with its  *)
(* letters upper-cased, and two units with the same text get the same set.  *)
C15_CaseInsensitive ==
    \A t \in Tasks :
        tasks[t].matched =>
            /\ FoundPairs(t) = MatchOf(t, Upper(OriginalText(t)))
            /\ \A u \in Tasks :
                   (tasks[u].matched /\ OriginalText(u) = OriginalText(t))
                       => FoundPairs(u) = FoundPairs(t)

(* C15 as amended. For every text T of ASCII characters the set of pairs    *)
(* matched for T equals the set for T upper-cased, and two units with the   *)
(* same text, ASCII or not, get the same set.                               *)
C15_CaseInsensitiveAscii ==
    \A t \in Tasks :
        tasks[t].matched =>
            /\ AsciiText(OriginalText(t)) =>
                   FoundPairs(t) = MatchOf(t, Upper(OriginalText(t)))
            /\ \A u \in Tasks :
                   (tasks[u].matched /\ OriginalText(u) = OriginalText(t))
                       => FoundPairs(u) = FoundPairs(t)

\* A text and its upper-cased form were matched, one in each path, to the
\* same non-empty set of pairs
C15_Witness ==
    \E t, u \in Tasks :
        /\ ~Grouped(t) /\ Grouped(u)
        /\ tasks[t].matched /\ tasks[u].matched
        /\ OriginalText(t) = TextSofiArt
        /\ OriginalText(u) = Upper(TextSofiArt)
        /\ OriginalText(u) # OriginalText(t)
        /\ FoundPairs(t) # {}
        /\ FoundPairs(t) = FoundPairs(u)

\* Task t leaves its asyncio.sleep(0.5) in this step
Wakes(t) == tasks[t].pc = "sleep" /\ tasks'[t].pc # "sleep"

\* The PendingGroup that task t appended its message to is no longer the
\* table's entry for its group_id
InstanceDeleted(t) == media_groups[updates[t].media_group_id] # tasks[t].joined

(* C16. A waiter that wakes after its PendingGroup has been deleted makes   *)
(* no transport call, creates or changes no entry of the group table and no *)
(* PendingGroup, and its handler does not raise to the ingestion boundary.  *)
C16_MissingGroupNoOp ==
    [][\A t \in Tasks :
           (Wakes(t) /\ InstanceDeleted(t)) =>
               /\ calls' = calls
               /\ media_groups' = media_groups
               /\ heap' = heap
               /\ tasks'[t].pc = "done"
               /\ tasks'[t].outcome \in {"returned", "caught"}]_vars

(* C17. A PendingGroup is flushed only by the waiter of a message that was  *)
(* appended to that same PendingGroup instance: a waiter left over from an  *)
(* earlier, deleted instance of the group_id never flushes a new instance.  *)
C17_NoPrematureFlush ==
    \A t \in Tasks :
        tasks[t].group_data # 0 => tasks[t].group_data = tasks[t].joined

----------------------------------------------------------------------------
(* BotManager (src/main.py). The bot variables describe self.bot, the bot   *)
(* the manager holds; its handlers run while the dispatcher is polling.     *)

ManagerInit ==
    /\ updates = <<>>
    /\ tasks = <<>>
    /\ media_groups = [g \in Keys |-> 0]
    /\ heap = <<>>
    /\ calls = {}
    /\ manager = BotManagerNew

\* self.bot = TelegramMonitorBot(): a new instance, self.media_groups = {}
NewBot ==
    /\ updates' = <<>>
    /\ tasks' = <<>>
    /\ media_groups' = [g \in Keys |-> 0]
    /\ heap' = <<>>
    /\ calls' = {}

SameBot == UNCHANGED <<updates, tasks, media_groups, heap, calls>>

Polling == manager.pc = "polling"

\* The updates of the runs of the manager: one album photo with a matching
\* caption, one without a caption, and one matching text message
ManagerMessages ==
    { m \in Messages : /\ m.kind = "photo" => m.media_group_id # NoGroup
                       /\ m.kind = "photo" \/ m.text = TextAcmeSofi
                       /\ m.caption \in {None, TextAcmeSofi} }

\* The top of the while True loop of run, up to await self.bot.start_polling()
RunIteration(m) ==
    [m EXCEPT !.pc = "polling", !.bots = m.bots + 1, !.last = "none"]

\* run, from its call to the first await: the web thread is started, then
\* the first iteration of the loop
RunStart ==
    /\ manager.pc = "constructed"
    /\ manager' = RunIteration([manager EXCEPT !.web_starts = manager.web_starts + 1])
    /\ NewBot

\* start_polling returned without an exception: the loop goes round
RunPollingReturns ==
    /\ Polling
    /\ manager.bots < MaxBots
    /\ manager' = RunIteration([manager EXCEPT !.last = "returned"])
    /\ NewBot

\* start_polling raised an Exception: up to await self.bot.stop()
RunPollingRaises ==
    /\ Polling
    /\ manager.bots < MaxBots
    /\ manager' = [manager EXCEPT !.pc = "stopping", !.last = "exception",
                                  !.stopped = manager.stopped \cup {manager.bots}]
    /\ SameBot

\* start_polling raised KeyboardInterrupt: break, up to the await
\* self.bot.stop() of the final cleanup
RunPollingInterrupted ==
    /\ Polling
    /\ manager' = [manager EXCEPT !.pc = "final_stop", !.last = "interrupt",
                                  !.stopped = manager.stopped \cup {manager.bots}]
    /\ SameBot

RunStopPropagates(ok) == ok

\* try: await self.bot.stop() / except: pass -- run goes on whether stop
\* returned (ok) or raised
RunStopExcept(ok) == TRUE

\* stop returned or raised in the except branch: up to await asyncio.sleep(5)
RunStopReturn(ok) ==
    /\ manager.pc = "stopping"
    /\ manager' = [manager EXCEPT !.pc = IF RunStopExcept(ok) THEN "sleeping"
                                                              ELSE "raised",
                                  !.stop_raised = manager.stop_raised \/ ~ok]
    /\ SameBot

\* asyncio.sleep(5) elapsed: continue, the next iteration of the loop
RunSleepReturn ==
    /\ manager.pc = "sleeping"
    /\ manager' = RunIteration(manager)
    /\ NewBot

\* stop returned or raised in the final cleanup: run returns
RunFinalStopReturn(ok) ==
    /\ manager.pc = "final_stop"
    /\ manager' = [manager EXCEPT !.pc = IF RunStopExcept(ok) THEN "finished"
                                                              ELSE "raised",
                                  !.stop_raised = manager.stop_raised \/ ~ok]
    /\ SameBot

ManagerNext ==
    \/ RunStart
    \/ \E message \in ManagerMessages : Polling /\ ReceivePlain(message)
    \/ \E message \in ManagerMessages : Polling /\ ReceiveGrouped(message)
    \/ \E t \in 1..MaxMsgs : Polling /\ Wake(t)
    \/ \E t \in 1..MaxMsgs, ok \in BOOLEAN : Polling /\ SendReturn(t, ok)
    \/ RunPollingReturns
    \/ RunPollingRaises
    \/ RunPollingInterrupted
    \/ \E ok \in BOOLEAN : RunStopReturn(ok)
    \/ RunSleepReturn
    \/ \E ok \in BOOLEAN : RunFinalStopReturn(ok)

\* self.bot.stop() returns or raises, and asyncio.sleep(5) elapses
ManagerFairness ==
    /\ WF_vars(\E ok \in BOOLEAN : RunStopReturn(ok))
    /\ WF_vars(RunSleepReturn)

ManagerSpec == ManagerInit /\ [][ManagerNext]_vars /\ ManagerFairness

\* The group table of a bot that has handled nothing yet
EmptyTable == media_groups = [g \in Keys |-> 0] /\ heap = <<>> /\ tasks = <<>>

----------------------------------------------------------------------------
(* BotManager.start_bot_with_recovery                                       *)

max_retries == 3

retry_delay == 10

NextDelaySame(delay) == delay

\* retry_delay *= 2
NextDelay(delay) == delay * 2

\* start_bot_with_recovery, from its call to the first await: attempt 0 of
\* range(max_retries), up to await self.bot.start_polling()
RecoveryStart ==
    /\ manager.pc = "constructed"
    /\ max_retries > 0
    /\ manager' = [manager EXCEPT !.pc = "polling", !.attempt = 0,
                                  !.retry_delay = retry_delay]
    /\ SameBot

\* start_polling returned without an exception: break
RecoveryPollingReturns ==
    /\ Polling
    /\ manager' = [manager EXCEPT !.pc = "returned", !.last = "returned"]
    /\ SameBot

\* start_polling raised an Exception: up to await asyncio.sleep(retry_delay),
\* or raise on the last attempt
RecoveryPollingRaises ==
    /\ Polling
    /\ manager' =
           IF manager.attempt < max_retries - 1
           THEN [manager EXCEPT !.pc = "sleeping", !.last = "exception",
                                !.waits = Append(manager.waits, manager.retry_delay)]
           ELSE [manager EXCEPT !.pc = "raised", !.last = "exception"]
    /\ SameBot

\* start_polling raised KeyboardInterrupt, which except Exception lets through
RecoveryPollingInterrupted ==
    /\ Polling
    /\ manager' = [manager EXCEPT !.pc = "interrupted", !.last = "interrupt"]
    /\ SameBot

\* asyncio.sleep(retry_delay) elapsed: the delay is doubled and the next
\* attempt of the loop starts, on the same bot
RecoverySleepReturn ==
    /\ manager.pc = "sleeping"
    /\ manager' = [manager EXCEPT !.pc = "polling", !.last = "none",
                                  !.attempt = manager.attempt + 1,
                                  !.retry_delay = NextDelay(manager.retry_delay)]
    /\ SameBot

RecoveryNext ==
    \/ RecoveryStart
    \/ \E message \in ManagerMessages : Polling /\ ReceivePlain(message)
    \/ \E message \in ManagerMessages : Polling /\ ReceiveGrouped(message)
    \/ \E t \in 1..MaxMsgs : Polling /\ Wake(t)
    \/ \E t \in 1..MaxMsgs, ok \in BOOLEAN : Polling /\ SendReturn(t, ok)
    \/ RecoveryPollingReturns
    \/ RecoveryPollingRaises
    \/ RecoveryPollingInterrupted
    \/ RecoverySleepReturn

RecoverySpec == ManagerInit /\ [][RecoveryNext]_vars

\* The polling attempts started so far
Attempts == IF manager.pc = "constructed" THEN 0 ELSE manager.attempt + 1

(* C19. start_bot_with_recovery makes at most 3 polling attempts: it stops  *)
(* at the first attempt that returns without an exception, waits 10 and     *)
(* then 20 between failed attempts, does not wait after the third failure   *)
(* and re-raises that failure to its caller.                                *)
C19_RecoveryBounded ==
    /\ Attempts <= 3
    /\ manager.waits = SubSeq(<<10, 20>>, 1, Len(manager.waits))
    /\ manager.pc \in {"polling", "returned", "raised", "interrupted"} =>
           Len(manager.waits) = Attempts - 1
    /\ manager.pc = "sleeping" => Len(manager.waits) = Attempts /\ Attempts < 3
    /\ manager.pc = "returned" => manager.last = "returned"
    /\ manager.pc = "raised" => manager.last = "exception" /\ Attempts = 3
    /\ manager.last = "exception" =>
           manager.pc = IF Attempts = 3 THEN "raised" ELSE "sleeping"

\* The third attempt failed after waits of 10 and 20, and the failure was
\* raised to the caller
C19_Witness ==
    /\ manager.pc = "raised"
    /\ manager.waits = <<10, 20>>
    /\ manager.attempt = 2

====
